---- MODULE Spec2Model ----
(***************************************************************************)
(* Model of the audio front-end of the sound-event detector:               *)
(*   src/src/audio_processing.cpp  (applyHannWindow, computeFFT,           *)
(*   computeMelFilterbank, normalizeSpectrogram, audioToMelSpectrogram)    *)
(*   src/src/audio_processing.h    (configuration constants)               *)
(*   src/src/main.cpp              (buffers handed to the front-end)       *)
(*                                                                         *)
(* Numbers.  The code computes in single-precision floating point.  The    *)
(* model computes in binary fixed point: the integer v stands for the real *)
(* number v / ONE, every product, quotient and square root is rounded to   *)
(* the grid as the float operation rounds to the float grid, sums are      *)
(* exact.  cosf/sinf are computed by a rational approximation that is      *)
(* exact at the multiples of a quarter turn and of a sixth of a turn, so   *)
(* the twiddle factors of the 2- and 4-point transforms and the Hann       *)
(* coefficients of a 4-point frame are exact.                              *)
(*                                                                         *)
(* Sizes.  The configuration constants are scaled down (FFT_SIZE 512 -> 4, *)
(* NUM_MELS 40 -> 3, NUM_FRAMES 49 -> 2, HOP_LENGTH 160 -> 1); every       *)
(* derived size is computed from them as in the header.                    *)
(***************************************************************************)
EXTENDS Integers, Sequences, FiniteSets, TLC

(***************************************************************************)
(* Bounds of the model                                                     *)
(***************************************************************************)
\* number of fractional bits of the fixed-point grid
FracBits == 4
\* number of non-zero sample amplitudes an input buffer is drawn from
AmpLevels == 1
\* largest size computeFFT is called with on arbitrary inputs
MaxFFTSize == 4
\* computeFFT is also run on impulses of size 2^1 .. 2^MaxImpulseLog
MaxImpulseLog == 4
\* largest raw value of a matrix cell handed to normalizeSpectrogram alone
MaxEnergy == 3
\* how far below F*H+N the buffer length may be configured
MaxLenSlack == 2

(***************************************************************************)
(* Configuration constants (audio_processing.h), scaled down               *)
(***************************************************************************)
FFT_SIZE == 4
NUM_MELS == 3
NUM_FRAMES == 2
HOP_LENGTH == 1
BUFFER_SIZE == NUM_FRAMES * HOP_LENGTH + FFT_SIZE
SPECTROGRAM_SIZE == NUM_MELS * NUM_FRAMES

(***************************************************************************)
(* Fixed-point arithmetic standing for float arithmetic                    *)
(***************************************************************************)
ONE == 2 ^ FracBits

\* n / d rounded to the nearest integer (ties away from zero), d > 0
RoundDiv(n, d) ==
    IF n >= 0 THEN (2 * n + d) \div (2 * d)
              ELSE -((2 * (-n) + d) \div (2 * d))

\* float product a * b
FMul(a, b) == RoundDiv(a * b, ONE)

\* float quotient a / b, b # 0
FDiv(a, b) ==
    IF b > 0 THEN RoundDiv(a * ONE, b) ELSE RoundDiv(-(a * ONE), -b)

\* largest r with r * r <= n, n >= 0
ISqrt(n) == CHOOSE r \in 0..n : r * r <= n /\ (r + 1) * (r + 1) > n

\* sqrtf(a), a >= 0
FSqrt(a) == ISqrt(a * ONE)

\* cosf(2*PI*p/q) for 0 <= p <= q, q > 0: reduction to the first eighth-turns,
\* then Bhaskara's approximation cos(x) = (pi^2 - 4x^2) / (pi^2 + x^2)
RECURSIVE CosTurn(_, _)
CosTurn(p, q) ==
    IF 2 * p > q THEN CosTurn(q - p, q)
    ELSE IF 4 * p > q THEN -CosTurn(q - 2 * p, 2 * q)
    ELSE RoundDiv(ONE * (q * q - 16 * p * p), q * q + 4 * p * p)

\* sinf(2*PI*p/q) for 0 <= p <= q, q > 0: sin(x) = cos(x - pi/2)
SinTurn(p, q) ==
    IF 4 * p >= q THEN CosTurn(4 * p - q, 4 * q)
                  ELSE CosTurn(q - 4 * p, 4 * q)

\* variant: stage < log2(size)
LeLog2_Strict(stage, size) == 2 ^ stage < size

\* stage <= log2(size) for integers stage >= 0, size >= 1
LeLog2(stage, size) == 2 ^ stage <= size

IsPow2(n) == \E e \in 0..n : 2 ^ e = n

(***************************************************************************)
(* applyHannWindow (audio_processing.cpp 5-9)                              *)
(***************************************************************************)
\* 0.5f * (1.0f - cosf(2.0f * PI * i / (size - 1)))
HannCoef(idx, size) == FMul(ONE \div 2, ONE - CosTurn(idx, size - 1))

applyHannWindow(buffer, size) ==
    [x \in DOMAIN buffer |->
        IF x < size THEN FMul(buffer[x], HannCoef(x, size)) ELSE buffer[x]]

(***************************************************************************)
(* computeFFT (audio_processing.cpp 12-53) as a step machine over a record *)
(*   pc      "copy" | "stage" | "k" | "j" | "mag" | "done" | "fault"       *)
(*   buffer  the caller's array, real/imag the local arrays                *)
(*   oob     an element of real/imag outside [0, size) was accessed        *)
(*   n_*     iterations executed by each loop                              *)
(***************************************************************************)
ZeroArray(n) == [x \in 0..(n - 1) |-> 0]

FFTStart(buf, size) ==
    [pc |-> "copy", size |-> size, input |-> buf, buffer |-> buf,
     real |-> ZeroArray(size), imag |-> ZeroArray(size),
     stage |-> 1, m |-> 0, wm_real |-> 0, wm_imag |-> 0,
     k |-> 0, j |-> 0, w_real |-> 0, w_imag |-> 0, oob |-> FALSE,
     n_copy |-> 0, n_stage |-> 0, n_k |-> 0, n_j |-> 0, n_mag |-> 0]

\* lines 17-20: real[i] = buffer[i]; imag[i] = 0
FFTCopy(s) ==
    [s EXCEPT !.real = [x \in 0..(s.size - 1) |-> s.buffer[x]],
              !.imag = ZeroArray(s.size),
              !.n_copy = s.size,
              !.stage = 1,
              !.pc = "stage"]

\* line 23-26: head of the stage loop
FFTStageHead(s) ==
    IF LeLog2(s.stage, s.size)
    THEN [s EXCEPT !.m = 2 ^ s.stage,
                   !.wm_real = CosTurn(1, 2 ^ s.stage),
                   !.wm_imag = -SinTurn(1, 2 ^ s.stage),
                   !.k = 0,
                   !.n_stage = s.n_stage + 1,
                   !.pc = "k"]
    ELSE [s EXCEPT !.pc = "mag"]

\* lines 28-30: head of the block loop
FFTBlockHead(s) ==
    IF s.k < s.size
    THEN [s EXCEPT !.w_real = ONE, !.w_imag = 0, !.j = 0,
                   !.n_k = s.n_k + 1, !.pc = "j"]
    ELSE [s EXCEPT !.stage = s.stage + 1, !.pc = "stage"]

\* the butterfly of lines 33-39 touches real/imag at these two indices
FFTLo(s) == s.k + s.j
FFTHi(s) == s.k + s.j + s.m \div 2
FFTOutOfBounds(s) ==
    s.pc = "j" /\ s.j < s.m \div 2 /\ (FFTLo(s) >= s.size \/ FFTHi(s) >= s.size)

\* an element read: g is what an access past the end of the array yields
FFTRead(s, arr, idx, g) == IF idx < s.size THEN arr[idx] ELSE g
\* an element written: a write past the end of the array lands elsewhere
FFTWrite(s, arr, idx, v) == IF idx < s.size THEN [arr EXCEPT ![idx] = v] ELSE arr

\* lines 32-45: one iteration of the butterfly loop, or its exit
FFTButterfly(s, g) ==
    IF s.j < s.m \div 2
    THEN LET lo == FFTLo(s)
             hi == FFTHi(s)
             t_real == FMul(s.w_real, FFTRead(s, s.real, hi, g))
                       - FMul(s.w_imag, FFTRead(s, s.imag, hi, g))
             t_imag == FMul(s.w_real, FFTRead(s, s.imag, hi, g))
                       + FMul(s.w_imag, FFTRead(s, s.real, hi, g))
             real1 == FFTWrite(s, s.real, hi, FFTRead(s, s.real, lo, g) - t_real)
             imag1 == FFTWrite(s, s.imag, hi, FFTRead(s, s.imag, lo, g) - t_imag)
             real2 == FFTWrite(s, real1, lo, FFTRead(s, real1, lo, g) + t_real)
             imag2 == FFTWrite(s, imag1, lo, FFTRead(s, imag1, lo, g) + t_imag)
             w_next_real == FMul(s.w_real, s.wm_real) - FMul(s.w_imag, s.wm_imag)
             w_next_imag == FMul(s.w_real, s.wm_imag) + FMul(s.w_imag, s.wm_real)
         IN  [s EXCEPT !.real = real2, !.imag = imag2,
                       !.w_real = w_next_real, !.w_imag = w_next_imag,
                       !.j = s.j + 1,
                       !.n_j = s.n_j + 1,
                       !.oob = s.oob \/ lo >= s.size \/ hi >= s.size]
    ELSE [s EXCEPT !.k = s.k + s.m, !.pc = "k"]

\* variant: the magnitudes are scaled by 1 / size
FFTMagnitudes_Scaled(s) ==
    [s EXCEPT !.buffer = [x \in DOMAIN s.buffer |->
                            IF x < s.size \div 2
                            THEN FDiv(FSqrt(FMul(s.real[x], s.real[x])
                                            + FMul(s.imag[x], s.imag[x])),
                                      s.size * ONE)
                            ELSE s.buffer[x]],
              !.n_mag = s.size \div 2,
              !.pc = "done"]

\* lines 50-52: buffer[i] = sqrtf(real[i]^2 + imag[i]^2) for i < size/2
FFTMagnitudes(s) ==
    [s EXCEPT !.buffer = [x \in DOMAIN s.buffer |->
                            IF x < s.size \div 2
                            THEN FSqrt(FMul(s.real[x], s.real[x])
                                       + FMul(s.imag[x], s.imag[x]))
                            ELSE s.buffer[x]],
              !.n_mag = s.size \div 2,
              !.pc = "done"]

\* one step of computeFFT
FFTStep(s, g) ==
    CASE s.pc = "copy"  -> FFTCopy(s)
      [] s.pc = "stage" -> FFTStageHead(s)
      [] s.pc = "k"     -> FFTBlockHead(s)
      [] s.pc = "j"     -> FFTButterfly(s, g)
      [] s.pc = "mag"   -> FFTMagnitudes(s)
      [] OTHER          -> s

\* computeFFT run to its return (all accesses in bounds); each step is bound
\* through a singleton set, so that it is computed once
RECURSIVE FFTRun(_)
FFTRun(s) ==
    IF s.pc \in {"done", "fault"} THEN s
    ELSE CHOOSE r \in {FFTRun(t) : t \in {FFTStep(s, 0)}} : TRUE

computeFFT(buf, size) == FFTRun(FFTStart(buf, size))

FFTIdle == FFTStart(ZeroArray(1), 1)

(***************************************************************************)
(* computeMelFilterbank (audio_processing.cpp 66-104)                      *)
(* Lines 67-87 compute fft_indices from the configuration constants alone  *)
(* (hzToMel, equally spaced mel points, melToHz, roundf); the model takes  *)
(* the resulting NUM_MELS + 2 bin indices as given.  Lines 90-103 are a    *)
(* step machine over a record                                              *)
(*   pc        "i" | "j" | "done"                                          *)
(*   zeroDenom a weight was evaluated with a zero denominator              *)
(*   n_*       iterations executed by each loop                            *)
(***************************************************************************)
\* what the float division yields on a zero denominator (inf or NaN)
FltInf == ONE * ONE * ONE

MelStart(mags, energies, idx) ==
    [pc |-> "i", i |-> 0, j |-> 0, fft_indices |-> idx,
     mags |-> mags, stale |-> energies, energies |-> energies,
     zeroDenom |-> FALSE, n_i |-> 0, n_j |-> 0]

\* variant: the band energy is not reset before it is accumulated
MelFilterHead_NoReset(s) ==
    IF s.i < NUM_MELS
    THEN [s EXCEPT !.j = s.fft_indices[s.i],
                   !.n_i = s.n_i + 1,
                   !.pc = "j"]
    ELSE [s EXCEPT !.pc = "done"]

\* lines 90-92: head of the filter loop
MelFilterHead(s) ==
    IF s.i < NUM_MELS
    THEN [s EXCEPT !.energies[s.i] = 0,
                   !.j = s.fft_indices[s.i],
                   !.n_i = s.n_i + 1,
                   !.pc = "j"]
    ELSE [s EXCEPT !.pc = "done"]

\* variant: the centre bin is put on the rising edge
MelRising_Inclusive(s) == s.j <= s.fft_indices[s.i + 1]

\* line 95: the bin is on the rising edge
MelRising(s) == s.j < s.fft_indices[s.i + 1]

\* lines 96 and 98: the denominator of the weight
MelDenominator(s) ==
    IF MelRising(s)
    THEN s.fft_indices[s.i + 1] - s.fft_indices[s.i]
    ELSE s.fft_indices[s.i + 2] - s.fft_indices[s.i + 1]

\* lines 94-99: the weight of bin j in filter i
MelWeight(s) ==
    LET num == IF MelRising(s) THEN s.j - s.fft_indices[s.i]
                               ELSE s.fft_indices[s.i + 2] - s.j
        den == MelDenominator(s)
    IN  IF den = 0 THEN FltInf ELSE FDiv(num * ONE, den * ONE)

\* lines 92-102: one iteration of the bin loop, or its exit
MelBin(s) ==
    IF s.j < s.fft_indices[s.i + 2]
    THEN IF s.j < FFT_SIZE \div 2
         THEN [s EXCEPT !.energies[s.i] =
                            s.energies[s.i] + FMul(s.mags[s.j], MelWeight(s)),
                        !.zeroDenom = s.zeroDenom \/ MelDenominator(s) = 0,
                        !.j = s.j + 1,
                        !.n_j = s.n_j + 1]
         ELSE [s EXCEPT !.j = s.j + 1, !.n_j = s.n_j + 1]
    ELSE [s EXCEPT !.i = s.i + 1, !.pc = "i"]

MelStep(s) ==
    CASE s.pc = "i" -> MelFilterHead(s)
      [] s.pc = "j" -> MelBin(s)
      [] OTHER      -> s

RECURSIVE MelRun(_)
MelRun(s) ==
    IF s.pc = "done" THEN s
    ELSE CHOOSE r \in {MelRun(t) : t \in {MelStep(s)}} : TRUE

computeMelFilterbank(fft_magnitudes, energies, idx) ==
    MelRun(MelStart(fft_magnitudes, energies, idx))

MelIdle == MelStart(ZeroArray(1), ZeroArray(1), ZeroArray(1))

(***************************************************************************)
(* normalizeSpectrogram (audio_processing.cpp 107-120) as a step machine   *)
(*   pc  "scan" | "test" | "div" | "done"                                  *)
(***************************************************************************)
NormStart(data, size) ==
    [pc |-> "scan", i |-> 0, size |-> size, input |-> data, data |-> data,
     max_val |-> 0, n_scan |-> 0, n_div |-> 0]

\* variant: the scan stops one element early
NormScan_SkipsLast(s) ==
    IF s.i < s.size - 1
    THEN [s EXCEPT !.max_val = IF s.data[s.i] > s.max_val
                               THEN s.data[s.i] ELSE s.max_val,
                   !.i = s.i + 1,
                   !.n_scan = s.n_scan + 1]
    ELSE [s EXCEPT !.pc = "test"]

\* lines 109-113: one iteration of the maximum scan, or its exit
NormScan(s) ==
    IF s.i < s.size
    THEN [s EXCEPT !.max_val = IF s.data[s.i] > s.max_val
                               THEN s.data[s.i] ELSE s.max_val,
                   !.i = s.i + 1,
                   !.n_scan = s.n_scan + 1]
    ELSE [s EXCEPT !.pc = "test"]

\* line 115
NormTest(s) ==
    IF s.max_val > 0 THEN [s EXCEPT !.i = 0, !.pc = "div"]
                     ELSE [s EXCEPT !.pc = "done"]

\* lines 116-118: one iteration of the division pass, or its exit
NormDivide(s) ==
    IF s.i < s.size
    THEN [s EXCEPT !.data[s.i] = FDiv(s.data[s.i], s.max_val),
                   !.i = s.i + 1,
                   !.n_div = s.n_div + 1]
    ELSE [s EXCEPT !.pc = "done"]

NormStep(s) ==
    CASE s.pc = "scan" -> NormScan(s)
      [] s.pc = "test" -> NormTest(s)
      [] s.pc = "div"  -> NormDivide(s)
      [] OTHER         -> s

RECURSIVE NormRun(_)
NormRun(s) ==
    IF s.pc = "done" THEN s
    ELSE CHOOSE r \in {NormRun(t) : t \in {NormStep(s)}} : TRUE

normalizeSpectrogram(data, size) == NormRun(NormStart(data, size))

NormIdle == NormStart(ZeroArray(1), 0)

(***************************************************************************)
(* State                                                                   *)
(***************************************************************************)
VARIABLES
    pc,            \* position in setup(), loop() or audioToMelSpectrogram, or
                   \* which function runs alone
    audio,         \* the caller's audioBuffer (main.cpp 18)
    bufLen,        \* its configured length, BUFFER_SIZE
    fft_indices,   \* bin indices of the NUM_MELS + 2 mel points
    frame,         \* loop variable of line 127
    i,             \* loop variable of line 129
    mel,           \* loop variable of line 142
    fft_buffer,    \* local array of line 124
    mel_energies,  \* local array of line 125
    spectrogram,   \* the caller's spectrogram (main.cpp 19)
    fft,           \* computeFFT running alone
    mf,            \* computeMelFilterbank running alone
    nz,            \* normalizeSpectrogram running alone
    writes,        \* history: how often each cell of spectrogram was written
    oobWrites,     \* history: indices written outside spectrogram
    reads,         \* history: indices at which audio was read
    zeroFills,     \* history: <<frame, i>> of the slots that were zero-filled
    processed,     \* history: frames whose column is complete, in order
    iters,         \* history: iterations executed by every loop
    normStarted,   \* history: normalizeSpectrogram has been entered
    sampleBuffer,  \* the samples read from the microphone (main.cpp 17)
    tensor_arena,  \* main.cpp 32
    i2s,           \* state of the I2S driver of port I2S_NUM_0
    model,         \* main.cpp 25
    interpreter,   \* main.cpp 26
    input,         \* main.cpp 27
    output,        \* main.cpp 28
    setupResult,   \* history: how setup() returned
    nullDerefs     \* history: places that dereferenced a handle still null

\* the state of main.cpp outside the two buffers handed to the spectrogram
mainVars == <<sampleBuffer, tensor_arena, i2s, model, interpreter, input,
              output, setupResult, nullDerefs>>

vars == <<pc, audio, bufLen, fft_indices, frame, i, mel, fft_buffer,
          mel_energies, spectrogram, fft, mf, nz, writes, oobWrites, reads,
          zeroFills, processed, iters, normStarted, mainVars>>

aggVars == <<pc, audio, bufLen, fft_indices, frame, i, mel, fft_buffer,
             mel_energies, spectrogram, writes, oobWrites, reads, zeroFills,
             processed, iters, normStarted, mainVars>>

(***************************************************************************)
(* Inputs                                                                  *)
(***************************************************************************)
\* sample amplitudes: audioBuffer[i] = sampleBuffer[i] / 32768.0f is in [-1, 1)
AmpOf(l) == IF l % 2 = 1 THEN -(ONE \div l) ELSE ONE \div l
Amps == {0} \cup {AmpOf(l) : l \in 1..AmpLevels}

\* what an uninitialised local array or a read past an array may hold
JunkVals == {0, ONE}

\* the spectrogram before the call: zero at start-up (a global array), the
\* result of an earlier call afterwards
StaleSpectrogram(g) ==
    [x \in 0..(SPECTROGRAM_SIZE - 1) |->
        IF g = 0 THEN 0 ELSE IF x = 0 THEN ONE ELSE ONE \div 2]

\* results of lines 67-87 for configurations with MIN_FREQ mapped to bin 0 and
\* MAX_FREQ = SAMPLE_RATE / 2: non-decreasing, from 0 to FFT_SIZE / 2
MelIndexChoices ==
    {f \in [0..(NUM_MELS + 1) -> 0..(FFT_SIZE \div 2)] :
        /\ f[0] = 0
        /\ f[NUM_MELS + 1] = FFT_SIZE \div 2
        /\ \A x \in 0..NUM_MELS : f[x] <= f[x + 1]}

ZeroIters ==
    [frame |-> 0, copy |-> 0, window |-> 0, fft_copy |-> 0, fft_stage |-> 0,
     fft_k |-> 0, fft_j |-> 0, fft_mag |-> 0, mel_i |-> 0, mel_j |-> 0,
     write |-> 0, scan |-> 0, div |-> 0]

\* main.cpp 25-28, 32: the handles before setup() has assigned them
NULL == "nullptr"

\* main.cpp 17-32: the globals of main.cpp as the program is loaded
MainGlobals ==
    /\ sampleBuffer = ZeroArray(BUFFER_SIZE)
    /\ tensor_arena = NULL
    /\ i2s = "none"
    /\ model = NULL
    /\ interpreter = NULL
    /\ input = NULL
    /\ output = NULL
    /\ setupResult = "running"
    /\ nullDerefs = {}

(***************************************************************************)
(* audioToMelSpectrogram (audio_processing.cpp 123-149)                    *)
(***************************************************************************)
InitAgg(len, firstFrames, idxChoices) ==
    /\ pc = "frame"
    /\ bufLen = len
    /\ audio \in [0..(len - 1) -> Amps]
    /\ fft_indices \in idxChoices
    /\ frame \in firstFrames
    /\ i = 0
    /\ mel = 0
    /\ \E g \in JunkVals :
          /\ fft_buffer = [x \in 0..(FFT_SIZE - 1) |-> g]
          /\ mel_energies = [x \in 0..(NUM_MELS - 1) |-> g]
          /\ spectrogram = StaleSpectrogram(g)
    /\ fft = FFTIdle /\ mf = MelIdle /\ nz = NormIdle
    /\ writes = ZeroArray(SPECTROGRAM_SIZE)
    /\ oobWrites = {}
    /\ reads = {}
    /\ zeroFills = {}
    /\ processed = << >>
    /\ iters = ZeroIters
    /\ normStarted = FALSE
    /\ MainGlobals

Init == InitAgg(BUFFER_SIZE, {0}, MelIndexChoices)

\* variant: the frame loop stops one frame early
FrameLoopTest_Short(f) == f < NUM_FRAMES - 1

\* line 127: the test of the frame loop
FrameLoopTest(f) == f < NUM_FRAMES

FrameLoop ==
    /\ pc = "frame"
    /\ IF FrameLoopTest(frame)
       THEN /\ pc' = "extract"
            /\ i' = 0
            /\ iters' = [iters EXCEPT !.frame = @ + 1]
       ELSE /\ pc' = "normalize"
            /\ UNCHANGED <<i, iters>>
    /\ UNCHANGED mainVars
    /\ UNCHANGED <<audio, bufLen, fft_indices, frame, mel, fft_buffer,
                   mel_energies, spectrogram, fft, mf, nz, writes, oobWrites,
                   reads, zeroFills, processed, normStarted>>

\* variant: the guard admits the index one past the end
InBuffer_Inclusive(idx, len) == idx <= len

\* line 131: the guard of the read
InBuffer(idx, len) == idx < len

\* lines 129-132: one iteration of the copy loop, or its exit
ExtractSample ==
    /\ pc = "extract"
    /\ IF i < FFT_SIZE
       THEN LET idx == frame * HOP_LENGTH + i
            IN  /\ IF InBuffer(idx, bufLen)
                   THEN /\ \E g \in JunkVals :
                              fft_buffer' = [fft_buffer EXCEPT ![i] =
                                  IF idx \in DOMAIN audio THEN audio[idx] ELSE g]
                        /\ reads' = reads \cup {idx}
                        /\ UNCHANGED zeroFills
                   ELSE /\ fft_buffer' = [fft_buffer EXCEPT ![i] = 0]
                        /\ zeroFills' = zeroFills \cup {<<frame, i>>}
                        /\ UNCHANGED reads
                /\ i' = i + 1
                /\ iters' = [iters EXCEPT !.copy = @ + 1]
                /\ UNCHANGED pc
       ELSE /\ pc' = "window"
            /\ UNCHANGED <<i, fft_buffer, reads, zeroFills, iters>>
    /\ UNCHANGED mainVars
    /\ UNCHANGED <<audio, bufLen, fft_indices, frame, mel, mel_energies,
                   spectrogram, fft, mf, nz, writes, oobWrites, processed,
                   normStarted>>

\* line 133
Window ==
    /\ pc = "window"
    /\ fft_buffer' = applyHannWindow(fft_buffer, FFT_SIZE)
    /\ iters' = [iters EXCEPT !.window = @ + FFT_SIZE]
    /\ pc' = "fft"
    /\ UNCHANGED mainVars
    /\ UNCHANGED <<audio, bufLen, fft_indices, frame, i, mel, mel_energies,
                   spectrogram, fft, mf, nz, writes, oobWrites, reads,
                   zeroFills, processed, normStarted>>

\* line 136
Transform ==
    /\ pc = "fft"
    /\ \E r \in {computeFFT(fft_buffer, FFT_SIZE)} :
           /\ fft_buffer' = r.buffer
           /\ iters' = [iters EXCEPT !.fft_copy = @ + r.n_copy,
                                     !.fft_stage = @ + r.n_stage,
                                     !.fft_k = @ + r.n_k,
                                     !.fft_j = @ + r.n_j,
                                     !.fft_mag = @ + r.n_mag]
    /\ pc' = "mel"
    /\ UNCHANGED mainVars
    /\ UNCHANGED <<audio, bufLen, fft_indices, frame, i, mel, mel_energies,
                   spectrogram, fft, mf, nz, writes, oobWrites, reads,
                   zeroFills, processed, normStarted>>

\* line 139
Filterbank ==
    /\ pc = "mel"
    /\ \E r \in {computeMelFilterbank(fft_buffer, mel_energies, fft_indices)} :
           /\ mel_energies' = r.energies
           /\ iters' = [iters EXCEPT !.mel_i = @ + r.n_i, !.mel_j = @ + r.n_j]
    /\ mel' = 0
    /\ pc' = "write"
    /\ UNCHANGED mainVars
    /\ UNCHANGED <<audio, bufLen, fft_indices, frame, i, fft_buffer,
                   spectrogram, fft, mf, nz, writes, oobWrites, reads,
                   zeroFills, processed, normStarted>>

\* variant: the band index is scaled by the number of bands
CellIndex_BandStride(b, f) == b * NUM_MELS + f

\* line 143: the cell that receives the energy of band b of frame f
CellIndex(b, f) == b * NUM_FRAMES + f

\* lines 142-144: one iteration of the write loop, or its exit
WriteCell ==
    /\ pc = "write"
    /\ IF mel < NUM_MELS
       THEN LET idx == CellIndex(mel, frame)
            IN  /\ IF idx \in DOMAIN spectrogram
                   THEN /\ spectrogram' =
                              [spectrogram EXCEPT ![idx] = mel_energies[mel]]
                        /\ writes' = [writes EXCEPT ![idx] = @ + 1]
                        /\ UNCHANGED oobWrites
                   ELSE /\ oobWrites' = oobWrites \cup {idx}
                        /\ UNCHANGED <<spectrogram, writes>>
                /\ mel' = mel + 1
                /\ iters' = [iters EXCEPT !.write = @ + 1]
                /\ UNCHANGED <<pc, processed>>
       ELSE /\ pc' = "next"
            /\ processed' = Append(processed, frame)
            /\ UNCHANGED <<mel, spectrogram, writes, oobWrites, iters>>
    /\ UNCHANGED mainVars
    /\ UNCHANGED <<audio, bufLen, fft_indices, frame, i, fft_buffer,
                   mel_energies, fft, mf, nz, reads, zeroFills, normStarted>>

\* line 127: frame++
FrameAdvance ==
    /\ pc = "next"
    /\ frame' = frame + 1
    /\ pc' = "frame"
    /\ UNCHANGED mainVars
    /\ UNCHANGED <<audio, bufLen, fft_indices, i, mel, fft_buffer,
                   mel_energies, spectrogram, fft, mf, nz, writes, oobWrites,
                   reads, zeroFills, processed, iters, normStarted>>

\* line 148
Normalize ==
    /\ pc = "normalize"
    /\ \E r \in {normalizeSpectrogram(spectrogram, NUM_MELS * NUM_FRAMES)} :
           /\ spectrogram' = r.data
           /\ iters' = [iters EXCEPT !.scan = @ + r.n_scan, !.div = @ + r.n_div]
    /\ normStarted' = TRUE
    /\ pc' = "done"
    /\ UNCHANGED mainVars
    /\ UNCHANGED <<audio, bufLen, fft_indices, frame, i, mel, fft_buffer,
                   mel_energies, fft, mf, nz, writes, oobWrites, reads,
                   zeroFills, processed>>

Next ==
    \/ FrameLoop
    \/ ExtractSample
    \/ Window
    \/ Transform
    \/ Filterbank
    \/ WriteCell
    \/ FrameAdvance
    \/ Normalize

Spec == Init /\ [][Next]_vars

\* the calling loop never stops a call half-way (main.cpp 274)
FairSpec == Spec /\ WF_vars(Next)

(***************************************************************************)
(* audioToMelSpectrogram under a buffer length that need not be F*H+N      *)
(***************************************************************************)
\* the bins of the scaled default configuration (20 Hz .. 8000 Hz at 16 kHz)
\* roundf(melToHz(mel_min + x * mel_step) * 4 / 16000) for x = 0..4:
\* 20, 642, 1803, 3967, 8000 Hz -> 0.005, 0.16, 0.45, 0.99, 2.0 -> 0, 0, 0, 1, 2
DefaultMelIndices == [x \in 0..(NUM_MELS + 1) |-> <<0, 0, 0, 1, 2>>[x + 1]]

InitAnyLen ==
    \E len \in (BUFFER_SIZE - MaxLenSlack)..(BUFFER_SIZE + 1) :
        InitAgg(len, {0}, {DefaultMelIndices})

SpecAnyLen == InitAnyLen /\ [][Next]_vars

(***************************************************************************)
(* audioToMelSpectrogram with the frame bodies run in any order            *)
(***************************************************************************)
InitAnyOrder == InitAgg(BUFFER_SIZE, 0..(NUM_FRAMES - 1), {DefaultMelIndices})

Unprocessed ==
    {f \in 0..(NUM_FRAMES - 1) : \A x \in 1..Len(processed) : processed[x] # f}

\* the frame body of lines 128-144 is entered for any frame not yet processed
FramePick ==
    /\ pc = "next"
    /\ IF Unprocessed = {} THEN frame' = NUM_FRAMES ELSE frame' \in Unprocessed
    /\ pc' = "frame"
    /\ UNCHANGED mainVars
    /\ UNCHANGED <<audio, bufLen, fft_indices, i, mel, fft_buffer,
                   mel_energies, spectrogram, fft, mf, nz, writes, oobWrites,
                   reads, zeroFills, processed, iters, normStarted>>

NextAnyOrder ==
    \/ FrameLoop
    \/ ExtractSample
    \/ Window
    \/ Transform
    \/ Filterbank
    \/ WriteCell
    \/ FramePick
    \/ Normalize

SpecAnyOrder == InitAnyOrder /\ [][NextAnyOrder]_vars

(***************************************************************************)
(* The functions run alone on inputs of their own                          *)
(***************************************************************************)
InitAlone(name) ==
    /\ pc = name
    /\ bufLen = 1
    /\ audio = ZeroArray(1)
    /\ fft_indices = ZeroArray(1)
    /\ frame = 0 /\ i = 0 /\ mel = 0
    /\ fft_buffer = ZeroArray(1)
    /\ mel_energies = ZeroArray(1)
    /\ spectrogram = ZeroArray(1)
    /\ writes = ZeroArray(1)
    /\ oobWrites = {} /\ reads = {} /\ zeroFills = {}
    /\ processed = << >>
    /\ iters = ZeroIters
    /\ normStarted = FALSE
    /\ MainGlobals

\* ---- computeFFT(buffer, size) ----
Impulse(n) == [x \in 0..(n - 1) |-> IF x = 0 THEN ONE ELSE 0]

FFTInputs ==
    UNION {[0..(n - 1) -> Amps] : n \in 2..MaxFFTSize}
    \cup {Impulse(2 ^ e) : e \in 1..MaxImpulseLog}

InitFFT ==
    /\ InitAlone("computeFFT")
    /\ \E buf \in FFTInputs : fft = FFTStart(buf, Cardinality(DOMAIN buf))
    /\ mf = MelIdle /\ nz = NormIdle

FFTCopyStep ==
    /\ pc = "computeFFT" /\ fft.pc = "copy"
    /\ fft' = FFTCopy(fft)
    /\ UNCHANGED <<aggVars, mf, nz>>

FFTStageStep ==
    /\ pc = "computeFFT" /\ fft.pc = "stage"
    /\ fft' = FFTStageHead(fft)
    /\ UNCHANGED <<aggVars, mf, nz>>

FFTBlockStep ==
    /\ pc = "computeFFT" /\ fft.pc = "k"
    /\ fft' = FFTBlockHead(fft)
    /\ UNCHANGED <<aggVars, mf, nz>>

\* an access outside real/imag is undefined: the run faults, or goes on with
\* whatever the memory past the array holds
FFTButterflyStep ==
    /\ pc = "computeFFT" /\ fft.pc = "j"
    /\ IF FFTOutOfBounds(fft)
       THEN \/ \E g \in JunkVals : fft' = FFTButterfly(fft, g)
            \/ fft' = [fft EXCEPT !.pc = "fault", !.oob = TRUE]
       ELSE fft' = FFTButterfly(fft, 0)
    /\ UNCHANGED <<aggVars, mf, nz>>

FFTMagStep ==
    /\ pc = "computeFFT" /\ fft.pc = "mag"
    /\ fft' = FFTMagnitudes(fft)
    /\ UNCHANGED <<aggVars, mf, nz>>

NextFFT ==
    \/ FFTCopyStep
    \/ FFTStageStep
    \/ FFTBlockStep
    \/ FFTButterflyStep
    \/ FFTMagStep

SpecFFT == InitFFT /\ [][NextFFT]_vars

\* ---- computeMelFilterbank(fft_magnitudes, mel_energies), lines 90-103 ----
\* any NUM_MELS + 2 bin indices, also degenerate, unordered, or past FFT_SIZE/2
AnyMelIndices == [0..(NUM_MELS + 1) -> 0..(FFT_SIZE \div 2 + 1)]

MagChoices ==
    {[x \in 0..(FFT_SIZE - 1) |-> (x + 1) * ONE],
     [x \in 0..(FFT_SIZE - 1) |-> ONE \div (x + 1)]}

InitMel ==
    /\ InitAlone("computeMelFilterbank")
    /\ \E idx \in AnyMelIndices, mags \in MagChoices, g \in JunkVals :
          mf = MelStart(mags, [x \in 0..(NUM_MELS - 1) |-> g], idx)
    /\ fft = FFTIdle /\ nz = NormIdle

MelFilterHeadStep ==
    /\ pc = "computeMelFilterbank" /\ mf.pc = "i"
    /\ mf' = MelFilterHead(mf)
    /\ UNCHANGED <<aggVars, fft, nz>>

MelBinStep ==
    /\ pc = "computeMelFilterbank" /\ mf.pc = "j"
    /\ mf' = MelBin(mf)
    /\ UNCHANGED <<aggVars, fft, nz>>

NextMel ==
    \/ MelFilterHeadStep
    \/ MelBinStep

SpecMel == InitMel /\ [][NextMel]_vars

\* ---- normalizeSpectrogram(spectrogram, size) ----
\* non-negative matrices with cells 0, 0.5, 1, 1.5, ...
NormInputs == [0..(SPECTROGRAM_SIZE - 1) -> {e * (ONE \div 2) : e \in 0..MaxEnergy}]

InitNorm ==
    /\ InitAlone("normalizeSpectrogram")
    /\ \E data \in NormInputs : nz = NormStart(data, SPECTROGRAM_SIZE)
    /\ fft = FFTIdle /\ mf = MelIdle

NormScanStep ==
    /\ pc = "normalizeSpectrogram" /\ nz.pc = "scan"
    /\ nz' = NormScan(nz)
    /\ UNCHANGED <<aggVars, fft, mf>>

NormTestStep ==
    /\ pc = "normalizeSpectrogram" /\ nz.pc = "test"
    /\ nz' = NormTest(nz)
    /\ UNCHANGED <<aggVars, fft, mf>>

NormDivideStep ==
    /\ pc = "normalizeSpectrogram" /\ nz.pc = "div"
    /\ nz' = NormDivide(nz)
    /\ UNCHANGED <<aggVars, fft, mf>>

NextNorm ==
    \/ NormScanStep
    \/ NormTestStep
    \/ NormDivideStep

SpecNorm == InitNorm /\ [][NextNorm]_vars

(***************************************************************************)
(* Properties                                                              *)
(***************************************************************************)
\* F(0) + ... + F(n - 1)
RECURSIVE SumTo(_, _)
SumTo(F(_), n) == IF n = 0 THEN 0 ELSE F(n - 1) + SumTo(F, n - 1)

\* the standard unnormalized DFT X_k = sum_n x[n] * e^(-2*pi*i*k*n/N)
DFTRe(x, n, k) ==
    LET Term(t) == FMul(x[t], CosTurn((k * t) % n, n)) IN SumTo(Term, n)
DFTIm(x, n, k) ==
    LET Term(t) == -FMul(x[t], SinTurn((k * t) % n, n)) IN SumTo(Term, n)
DFTMagnitude(x, n, k) ==
    FSqrt(FMul(DFTRe(x, n, k), DFTRe(x, n, k))
          + FMul(DFTIm(x, n, k), DFTIm(x, n, k)))

\* C1: for a power-of-two size N (N = 2 and N = 4, where every twiddle factor
\* is 1, -1, i or -i and the arithmetic is exact), computeFFT leaves in slots
\* 0 .. N/2-1 the magnitudes of the standard DFT of its input, natural order.
C1_FFTEqualsDFT ==
    (fft.pc = "done" /\ fft.size \in {2, 4}) =>
        \A k \in 0..(fft.size \div 2 - 1) :
            fft.buffer[k] = DFTMagnitude(fft.input, fft.size, k)

\* C7: a size that is not a power of two is caught before the computation:
\* computeFFT never indexes real/imag outside [0, size) because of it.
C7_NoOutOfBoundsIndex == ~fft.oob

\* C10: for a power-of-two size N, computeFFT of the impulse x[0] = 1,
\* x[n] = 0 for n > 0 gives the magnitude 1 at every bin k < N/2.
C10_ImpulseFlat ==
    (fft.pc = "done" /\ IsPow2(fft.size) /\ fft.input = Impulse(fft.size)) =>
        \A k \in 0..(fft.size \div 2 - 1) : fft.buffer[k] = ONE

C10_Witness ==
    /\ fft.pc = "done"
    /\ fft.size = 8
    /\ fft.input = Impulse(8)
    /\ fft.n_j = 12
    /\ \A k \in 0..3 : fft.buffer[k] = ONE

\* the N samples of frame f of a buffer of length len, zero past its end
ExtractFrame(a, len, f) ==
    [x \in 0..(FFT_SIZE - 1) |->
        IF f * HOP_LENGTH + x < len THEN a[f * HOP_LENGTH + x] ELSE 0]

\* the mel energies of frame f, computed on working storage of its own
FrameColumn(a, len, idx, f) ==
    computeMelFilterbank(
        computeFFT(applyHannWindow(ExtractFrame(a, len, f), FFT_SIZE),
                   FFT_SIZE).buffer,
        ZeroArray(NUM_MELS), idx).energies

\* C2: before normalization starts, every cell of [0, M*F) has been written
\* exactly once, no cell outside is written, and cell band*F + frame holds the
\* mel energy of that band for that frame; no cell keeps its earlier value.
C2_EachCellWrittenOnce ==
    /\ oobWrites = {}
    /\ \A c \in DOMAIN writes : writes[c] <= 1
    /\ pc = "normalize" =>
          \A f \in 0..(NUM_FRAMES - 1) :
              LET col == FrameColumn(audio, bufLen, fft_indices, f)
              IN  \A b \in 0..(NUM_MELS - 1) :
                      /\ writes[b * NUM_FRAMES + f] = 1
                      /\ spectrogram[b * NUM_FRAMES + f] = col[b]

C2_Witness ==
    /\ pc = "normalize"
    /\ ~normStarted
    /\ \A c \in 0..(NUM_MELS * NUM_FRAMES - 1) : writes[c] = 1
    /\ spectrogram # StaleSpectrogram(0) /\ spectrogram # StaleSpectrogram(ONE)
    /\ \E b \in 0..(NUM_MELS - 1) :
          /\ spectrogram[b * NUM_FRAMES] # spectrogram[b * NUM_FRAMES + 1]
          /\ spectrogram[b * NUM_FRAMES + 1] > 0

\* C3: normalizeSpectrogram is entered only after all F frames have written
\* their column, and no frame writes once it has been entered.
C3_NormalizerAfterAllFrames ==
    /\ [](normStarted =>
            /\ \A f \in 0..(NUM_FRAMES - 1) :
                  \E x \in 1..Len(processed) : processed[x] = f
            /\ \A c \in 0..(NUM_MELS * NUM_FRAMES - 1) : writes[c] >= 1)
    /\ [][(normStarted \/ normStarted') =>
            (writes' = writes /\ processed' = processed)]_vars

C3_Witness ==
    /\ normStarted
    /\ pc = "done"
    /\ Len(processed) = NUM_FRAMES
    /\ iters.div = NUM_MELS * NUM_FRAMES
    /\ \E c \in DOMAIN spectrogram : spectrogram[c] = ONE

\* C5: frame extraction reads the audio buffer only at indices in
\* [0, bufferLength): slot i of frame f receives the sample at f*H + i when
\* f*H + i < bufferLength and 0 otherwise, whatever bufferLength is; when
\* bufferLength = F*H + N no slot is zero-filled.
C5_NoReadOutsideBuffer ==
    /\ reads \subseteq 0..(bufLen - 1)
    /\ \A z \in zeroFills : z[1] * HOP_LENGTH + z[2] >= bufLen
    /\ pc = "window" =>
          \A x \in 0..(FFT_SIZE - 1) :
              LET idx == frame * HOP_LENGTH + x
              IN  IF idx < bufLen
                  THEN fft_buffer[x] = audio[idx] /\ idx \in reads
                  ELSE fft_buffer[x] = 0 /\ <<frame, x>> \in zeroFills
    /\ bufLen = NUM_FRAMES * HOP_LENGTH + FFT_SIZE => zeroFills = {}

C5_Witness ==
    /\ pc = "window"
    /\ frame = NUM_FRAMES - 1
    /\ bufLen < BUFFER_SIZE
    /\ <<frame, FFT_SIZE - 1>> \in zeroFills
    /\ reads = 0..(bufLen - 1)
    /\ \E x \in 0..(FFT_SIZE - 1) : fft_buffer[x] # 0

\* the largest value of an array
MaxOf(f) == CHOOSE v \in {f[x] : x \in DOMAIN f} : \A x \in DOMAIN f : f[x] <= v

\* C4: normalizeSpectrogram on a matrix of non-negative values: when its
\* maximum is positive every element becomes itself divided by the maximum,
\* all values end in [0, 1] and the largest is exactly 1; when the maximum is
\* zero the matrix is left unchanged.
C4_NormalizeByMax ==
    nz.pc = "done" =>
        IF MaxOf(nz.input) > 0
        THEN /\ \A c \in DOMAIN nz.data :
                   /\ nz.data[c] = FDiv(nz.input[c], MaxOf(nz.input))
                   /\ 0 <= nz.data[c] /\ nz.data[c] <= ONE
             /\ MaxOf(nz.data) = ONE
        ELSE nz.data = nz.input

C4_Witness ==
    /\ nz.pc = "done"
    /\ nz.n_div = SPECTROGRAM_SIZE
    /\ nz.input[SPECTROGRAM_SIZE - 1] > ONE
    /\ nz.input[SPECTROGRAM_SIZE - 1] = MaxOf(nz.input)
    /\ \E c \in DOMAIN nz.data : 0 < nz.data[c] /\ nz.data[c] < ONE

\* the sum of F over a finite set
RECURSIVE SumOver(_, _)
SumOver(F(_), S) ==
    IF S = {} THEN 0
    ELSE LET x == CHOOSE y \in S : TRUE IN F(x) + SumOver(F, S \ {x})

\* the energy of a triangular filter (left, center, right): bins of
\* [left, center) weigh (b - left) / (center - left), bins of [center, right)
\* weigh (right - b) / (right - center), only bins below FFT_SIZE / 2 count
TriangleEnergy(mags, l, c, r) ==
    LET bins == {b \in 0..(FFT_SIZE \div 2 - 1) : l <= b /\ b < r}
        rising == {b \in bins : b < c}
        falling == {b \in bins : b >= c}
        Up(b) == FMul(mags[b], FDiv((b - l) * ONE, (c - l) * ONE))
        Down(b) == FMul(mags[b], FDiv((r - b) * ONE, (r - c) * ONE))
    IN  SumOver(Up, rising) + SumOver(Down, falling)

\* C6: for every triple (left, center, right) of bin indices, degenerate ones
\* included, applying the filter never evaluates a weight whose denominator is
\* zero; a zero-width rising or falling segment adds nothing to the energy.
C6_NoZeroDenominator ==
    /\ ~mf.zeroDenom
    /\ mf.pc = "j" /\ mf.j < mf.fft_indices[mf.i + 2] /\ mf.j < FFT_SIZE \div 2
          => MelDenominator(mf) # 0
    /\ mf.pc = "done" =>
          \A f \in 0..(NUM_MELS - 1) :
              mf.energies[f] =
                  TriangleEnergy(mf.mags, mf.fft_indices[f],
                                 mf.fft_indices[f + 1], mf.fft_indices[f + 2])

C6_Witness ==
    /\ mf.pc = "done"
    /\ mf.fft_indices[0] = mf.fft_indices[1]
    /\ mf.fft_indices[1] < mf.fft_indices[2]
    /\ mf.fft_indices[2] = mf.fft_indices[3]
    /\ mf.fft_indices[3] = mf.fft_indices[4]
    /\ mf.energies[0] > 0
    /\ mf.energies[1] > 0
    /\ mf.energies[2] = 0
    /\ mf.n_j > 0

\* the frame body of lines 128-144 for frame f, on the working storage and
\* the matrix left by the frames before it
RefFrame(st, a, len, idx, f) ==
    LET copied == [x \in DOMAIN st.fft_buffer |->
                      IF x < FFT_SIZE THEN ExtractFrame(a, len, f)[x]
                                      ELSE st.fft_buffer[x]]
        mags == computeFFT(applyHannWindow(copied, FFT_SIZE), FFT_SIZE).buffer
        energies == computeMelFilterbank(mags, st.mel_energies, idx).energies
    IN  [fft_buffer |-> mags,
         mel_energies |-> energies,
         spectrogram |-> [c \in DOMAIN st.spectrogram |->
                            IF \E b \in 0..(NUM_MELS - 1) : c = b * NUM_FRAMES + f
                            THEN energies[(c - f) \div NUM_FRAMES]
                            ELSE st.spectrogram[c]]]

\* the frames f, f + 1, ..., NUM_FRAMES - 1 in increasing order
RECURSIVE RefFrames(_, _, _, _, _)
RefFrames(st, a, len, idx, f) ==
    IF f >= NUM_FRAMES THEN st
    ELSE RefFrames(RefFrame(st, a, len, idx, f), a, len, idx, f + 1)

\* the feature matrix before normalization when the frames are processed in
\* increasing order on zeroed storage
InOrderMatrix(a, len, idx) ==
    RefFrames([fft_buffer |-> ZeroArray(FFT_SIZE),
               mel_energies |-> ZeroArray(NUM_MELS),
               spectrogram |-> ZeroArray(SPECTROGRAM_SIZE)],
              a, len, idx, 0).spectrogram

\* C8: whatever the order in which the F frame bodies run, and whatever the
\* working buffers held before, the feature matrix before normalization and
\* the final feature vector are those of the frames run in increasing order.
C8_FrameOrderIrrelevant ==
    /\ pc = "normalize" =>
          spectrogram = InOrderMatrix(audio, bufLen, fft_indices)
    /\ pc = "done" =>
          spectrogram =
              normalizeSpectrogram(InOrderMatrix(audio, bufLen, fft_indices),
                                   NUM_MELS * NUM_FRAMES).data

C8_Witness ==
    /\ pc = "done"
    /\ Len(processed) = NUM_FRAMES
    /\ processed[1] = NUM_FRAMES - 1
    /\ processed[NUM_FRAMES] = 0
    /\ \E b \in 0..(NUM_MELS - 1) :
          /\ spectrogram[b * NUM_FRAMES] > 0
          /\ spectrogram[b * NUM_FRAMES + 1] > 0
          /\ spectrogram[b * NUM_FRAMES] # spectrogram[b * NUM_FRAMES + 1]

\* log2 of a power of two
Log2(n) == CHOOSE e \in 0..n : 2 ^ e = n

\* the iterations of every loop as a function of the configuration alone
\* (the division pass aside)
ExpectedIters(idx) ==
    LET Width(b) == IF idx[b + 2] > idx[b] THEN idx[b + 2] - idx[b] ELSE 0
    IN  [frame |-> NUM_FRAMES,
         copy |-> NUM_FRAMES * FFT_SIZE,
         window |-> NUM_FRAMES * FFT_SIZE,
         fft_copy |-> NUM_FRAMES * FFT_SIZE,
         fft_stage |-> NUM_FRAMES * Log2(FFT_SIZE),
         fft_k |-> NUM_FRAMES * (FFT_SIZE - 1),
         fft_j |-> NUM_FRAMES * (FFT_SIZE \div 2) * Log2(FFT_SIZE),
         fft_mag |-> NUM_FRAMES * (FFT_SIZE \div 2),
         mel_i |-> NUM_FRAMES * NUM_MELS,
         mel_j |-> NUM_FRAMES * SumTo(Width, NUM_MELS),
         write |-> NUM_FRAMES * NUM_MELS,
         scan |-> NUM_MELS * NUM_FRAMES,
         div |-> 0]

\* C9: audioToMelSpectrogram terminates on every buffer, and the iterations
\* of each of its loops are fixed by the configuration, not by the samples;
\* only the division pass of the normalizer is skipped when the maximum is 0.
C9_BoundedInputIndependent ==
    /\ <>(pc = "done")
    /\ [](pc = "done" =>
            /\ [iters EXCEPT !.div = 0] = ExpectedIters(fft_indices)
            /\ iters.div = IF \A c \in DOMAIN spectrogram : spectrogram[c] = 0
                           THEN 0 ELSE NUM_MELS * NUM_FRAMES)

C9_Witness ==
    /\ pc = "done"
    /\ \E x \in DOMAIN audio : audio[x] # 0
    /\ \E x \in DOMAIN audio : audio[x] = 0
    /\ \E c \in DOMAIN spectrogram : spectrogram[c] = ONE
    /\ iters.div = NUM_MELS * NUM_FRAMES
    /\ iters.fft_j = NUM_FRAMES * (FFT_SIZE \div 2) * Log2(FFT_SIZE)
    /\ iters.mel_j > 0

(***************************************************************************)
(* The firmware: setup() once, then loop() again and again (main.cpp)      *)
(***************************************************************************)
\* the variables that belong to a call of audioToMelSpectrogram
callVars == <<bufLen, fft_indices, frame, i, mel, fft_buffer, mel_energies,
              fft, mf, nz, writes, oobWrites, reads, zeroFills, processed,
              iters, normStarted>>

\* the handles and the driver, assigned by setup() only
handleVars == <<tensor_arena, i2s, model, interpreter, input, output>>

\* 16-bit samples whose quotient by 32768 is one of Amps
SampleOf(l) == IF l % 2 = 1 THEN -(32768 \div l) ELSE 32768 \div l

SampleLevels == {SampleOf(l) : l \in 1..AmpLevels}

\* what i2s_read delivers into sampleBuffer: silence, a constant level, or
\* one click in silence
SampleBuffers ==
    {ZeroArray(BUFFER_SIZE)}
    \cup {[x \in 0..(BUFFER_SIZE - 1) |-> v] : v \in SampleLevels}
    \cup {[x \in 0..(BUFFER_SIZE - 1) |-> IF x = p THEN v ELSE 0] :
              v \in SampleLevels, p \in 0..(BUFFER_SIZE - 1)}

\* line 270: sampleBuffer[i] / 32768.0f
ToFloat(s) == RoundDiv(s * ONE, 32768)

\* lines 232-256: data_varies, with max_sample and min_sample starting at 0
DataVaries(buf) ==
    LET seen == {0} \cup {buf[x] : x \in DOMAIN buf}
        max_sample == CHOOSE m \in seen : \A v \in seen : v <= m
        min_sample == CHOOSE m \in seen : \A v \in seen : m <= v
        non_zero_count == Cardinality({x \in DOMAIN buf : buf[x] # 0})
    IN  max_sample # min_sample /\ non_zero_count > BUFFER_SIZE \div 10

\* the program as it is loaded: globals of main.cpp 17-32, setup() not begun
InitMain ==
    /\ pc = "setup"
    /\ bufLen = BUFFER_SIZE
    /\ audio = ZeroArray(BUFFER_SIZE)
    /\ fft_indices = DefaultMelIndices
    /\ frame = 0 /\ i = 0 /\ mel = 0
    /\ fft_buffer = ZeroArray(FFT_SIZE)
    /\ mel_energies = ZeroArray(NUM_MELS)
    /\ spectrogram = ZeroArray(SPECTROGRAM_SIZE)
    /\ fft = FFTIdle /\ mf = MelIdle /\ nz = NormIdle
    /\ writes = ZeroArray(SPECTROGRAM_SIZE)
    /\ oobWrites = {} /\ reads = {} /\ zeroFills = {}
    /\ processed = << >>
    /\ iters = ZeroIters
    /\ normStarted = FALSE
    /\ MainGlobals

\* an early return of setup(): the core then calls loop() all the same
SetupReturn(result) ==
    /\ pc' = "loop"
    /\ setupResult' = result

\* lines 68-71
SetupPsram ==
    /\ pc = "setup"
    /\ \E found \in BOOLEAN :
           IF found THEN pc' = "setup_arena" /\ UNCHANGED setupResult
                    ELSE SetupReturn("psram")
    /\ UNCHANGED <<audio, spectrogram, callVars, sampleBuffer, handleVars,
                   nullDerefs>>

\* lines 74-78
SetupArena ==
    /\ pc = "setup_arena"
    /\ tensor_arena' \in {NULL, "arena"}
    /\ IF tensor_arena' = NULL THEN SetupReturn("arena")
                               ELSE pc' = "setup_i2s" /\ UNCHANGED setupResult
    /\ UNCHANGED <<audio, spectrogram, callVars, sampleBuffer, i2s, model,
                   interpreter, input, output, nullDerefs>>

\* lines 81-85
SetupI2SInstall ==
    /\ pc = "setup_i2s"
    /\ \E ok \in BOOLEAN :
           IF ok THEN i2s' = "installed" /\ pc' = "setup_pin"
                      /\ UNCHANGED setupResult
                 ELSE UNCHANGED i2s /\ SetupReturn("i2s_install")
    /\ UNCHANGED <<audio, spectrogram, callVars, sampleBuffer, tensor_arena,
                   model, interpreter, input, output, nullDerefs>>

\* lines 87-91
SetupI2SPin ==
    /\ pc = "setup_pin"
    /\ \E ok \in BOOLEAN :
           IF ok THEN i2s' = "ready" /\ pc' = "setup_model"
                      /\ UNCHANGED setupResult
                 ELSE UNCHANGED i2s /\ SetupReturn("i2s_pin")
    /\ UNCHANGED <<audio, spectrogram, callVars, sampleBuffer, tensor_arena,
                   model, interpreter, input, output, nullDerefs>>

\* lines 94-98
SetupModel ==
    /\ pc = "setup_model"
    /\ model' = "g_model"
    /\ \E versionOk \in BOOLEAN :
           IF versionOk THEN pc' = "setup_interpreter" /\ UNCHANGED setupResult
                        ELSE SetupReturn("schema")
    /\ UNCHANGED <<audio, spectrogram, callVars, sampleBuffer, tensor_arena,
                   i2s, interpreter, input, output, nullDerefs>>

\* lines 101-112
SetupInterpreter ==
    /\ pc = "setup_interpreter"
    /\ interpreter' = "static_interpreter"
    /\ \E allocate_status \in {"kTfLiteOk", "kTfLiteError"} :
           IF allocate_status = "kTfLiteOk"
           THEN pc' = "setup_tensors" /\ UNCHANGED setupResult
           ELSE SetupReturn("tensors")
    /\ UNCHANGED <<audio, spectrogram, callVars, sampleBuffer, tensor_arena,
                   i2s, model, input, output, nullDerefs>>

\* lines 115-122: only input is tested
SetupTensors ==
    /\ pc = "setup_tensors"
    /\ input' \in {NULL, "input0"}
    /\ output' \in {NULL, "output0"}
    /\ IF input' = NULL THEN SetupReturn("input")
                        ELSE pc' = "setup_report" /\ UNCHANGED setupResult
    /\ UNCHANGED <<audio, spectrogram, callVars, sampleBuffer, tensor_arena,
                   i2s, model, interpreter, nullDerefs>>

\* a dereference of handle h at place site: recorded when h is still null,
\* and then the processor traps (panic) or the read yields whatever is there
Deref(h, site, continue) ==
    IF h = NULL
    THEN /\ nullDerefs' = nullDerefs \cup {site}
         /\ \/ pc' = "panic"
            \/ pc' = continue
    ELSE /\ UNCHANGED nullDerefs
         /\ pc' = continue

\* lines 124-224: the report reads model, input and output, then the
\* microphone test; setup() has then run to completion
SetupReport ==
    /\ pc = "setup_report"
    /\ Deref(output, "setup: output->type", "loop")
    /\ setupResult' = IF pc' = "loop" THEN "complete" ELSE setupResult
    /\ UNCHANGED <<audio, spectrogram, callVars, sampleBuffer, handleVars>>

\* lines 228-230 and 352-356: i2s_read gives samples only from an installed
\* driver; on an error the iteration ends
LoopRead ==
    /\ pc = "loop"
    /\ \/ /\ i2s # "none"
          /\ sampleBuffer' \in SampleBuffers
          /\ pc' = "loop_diag"
       \/ /\ pc' = "loop"
          /\ UNCHANGED sampleBuffer
    /\ UNCHANGED <<audio, spectrogram, callVars, handleVars, setupResult,
                   nullDerefs>>

\* lines 232-266
LoopDiagnose ==
    /\ pc = "loop_diag"
    /\ pc' = IF DataVaries(sampleBuffer) THEN "loop_convert" ELSE "loop"
    /\ UNCHANGED <<audio, spectrogram, callVars, mainVars>>

\* lines 269-274: the conversion and the entry into audioToMelSpectrogram,
\* whose local arrays start with whatever the stack holds
LoopSpectrogram ==
    /\ pc = "loop_convert"
    /\ audio' = [x \in 0..(BUFFER_SIZE - 1) |-> ToFloat(sampleBuffer[x])]
    /\ \E g \in JunkVals :
          /\ fft_buffer' = [x \in 0..(FFT_SIZE - 1) |-> g]
          /\ mel_energies' = [x \in 0..(NUM_MELS - 1) |-> g]
    /\ frame' = 0 /\ i' = 0 /\ mel' = 0
    /\ writes' = ZeroArray(SPECTROGRAM_SIZE)
    /\ oobWrites' = {} /\ reads' = {} /\ zeroFills' = {}
    /\ processed' = << >>
    /\ iters' = ZeroIters
    /\ normStarted' = FALSE
    /\ pc' = "frame"
    /\ UNCHANGED <<bufLen, fft_indices, spectrogram, fft, mf, nz, mainVars>>

\* lines 277-305, after the call has returned: the statistics, then
\* input->type and the copy into input->data.f; no test of input
LoopInput ==
    /\ pc = "done"
    /\ \E type \in {"kTfLiteFloat32", "other"} :
           IF type = "kTfLiteFloat32"
           THEN IF input = NULL
                THEN \/ /\ nullDerefs' = nullDerefs \cup {"input->type"}
                        /\ pc' = "panic"
                     \/ /\ nullDerefs' =
                               nullDerefs \cup {"input->type", "input->data"}
                        /\ pc' \in {"panic", "loop_invoke"}
                ELSE /\ UNCHANGED nullDerefs
                     /\ pc' = "loop_invoke"
           ELSE Deref(input, "input->type", "loop")
    /\ UNCHANGED <<audio, spectrogram, callVars, sampleBuffer, handleVars,
                   setupResult>>

\* lines 309-313: no test of interpreter
LoopInvoke ==
    /\ pc = "loop_invoke"
    /\ \E invoke_status \in {"kTfLiteOk", "kTfLiteError"} :
           Deref(interpreter, "interpreter->Invoke",
                 IF invoke_status = "kTfLiteOk" THEN "loop_output" ELSE "loop")
    /\ UNCHANGED <<audio, spectrogram, callVars, sampleBuffer, handleVars,
                   setupResult>>

\* lines 316-351: no test of output
LoopOutput ==
    /\ pc = "loop_output"
    /\ Deref(output, "output->data", "loop")
    /\ UNCHANGED <<audio, spectrogram, callVars, sampleBuffer, handleVars,
                   setupResult>>

NextMain ==
    \/ SetupPsram
    \/ SetupArena
    \/ SetupI2SInstall
    \/ SetupI2SPin
    \/ SetupModel
    \/ SetupInterpreter
    \/ SetupTensors
    \/ SetupReport
    \/ LoopRead
    \/ LoopDiagnose
    \/ LoopSpectrogram
    \/ Next
    \/ LoopInput
    \/ LoopInvoke
    \/ LoopOutput

SpecMain == InitMain /\ [][NextMain]_vars

\* the dereferences made by loop()
LoopSites ==
    {"input->type", "input->data", "interpreter->Invoke", "output->data"}

\* C11: when setup() has returned early on an initialization failure, no
\* iteration of loop() reads input->type, copies into input->data, calls
\* interpreter->Invoke() or reads output->data while that handle is null
C11_LoopUsesHandlesOnlyAfterSetup ==
    setupResult \notin {"running", "complete"} =>
        nullDerefs \cap LoopSites = {}

====
